---- MODULE Spec2Model ----
(***************************************************************************)
(* Model of the wallpaper-to-theme pipeline: image loading                 *)
(* (pipeline/extract.rs), colour extraction (pipeline/extract.rs) and slot *)
(* assignment (pipeline/assign.rs), over the colour model of crate::color. *)
(*                                                                         *)
(* f32 quantities are fixed-point integers in units of 10^-6 (Scale);      *)
(* hue angles are in millidegrees.                                         *)
(***************************************************************************)
EXTENDS Integers, Sequences, FiniteSets, TLC

\* ------------------------------------------------------------------------
\* Fixed-point arithmetic
\* ------------------------------------------------------------------------

\* 1.0 in fixed-point units.
Scale == 1000000

\* 360 degrees in millidegrees.
FullTurn == 360000

Abs(x) == IF x >= 0 THEN x ELSE -x

Min(x, y) == IF x <= y THEN x ELSE y

Max(x, y) == IF x >= y THEN x ELSE y

\* floor(a*b/Scale) for a, b >= 0, split so that no product leaves 32 bits.
MulU(a, b) ==
  LET ah == a \div 1000
      al == a % 1000
      bh == b \div 1000
      bl == b % 1000
  IN  ah * bh + ((ah * bl + al * bh + ((al * bl) \div 1000)) \div 1000)

\* +1 when a and b have the same sign, -1 otherwise.
Sgn(a, b) == IF (a >= 0) = (b >= 0) THEN 1 ELSE -1

\* a*b/Scale, rounded toward zero.
MulS(a, b) == Sgn(a, b) * MulU(Abs(a), Abs(b))

\* floor(a*Scale/b) for a >= 0, 0 < b <= 2*Scale, by long division.
DivU(a, b) ==
  LET t1 == (a % b) * 1000
      t2 == (t1 % b) * 1000
  IN  (a \div b) * Scale + (t1 \div b) * 1000 + (t2 \div b)

Cube(x) == MulS(MulS(x, x), x)

\* Smallest y in lo+1..hi with y^3 >= x (0 < x, lo^3 < x <= hi^3).
RECURSIVE CbrtSearch(_, _, _)
CbrtSearch(x, lo, hi) ==
  IF hi - lo <= 1 THEN hi
  ELSE LET mid == (lo + hi) \div 2
       IN  IF MulU(MulU(mid, mid), mid) >= x
           THEN CbrtSearch(x, lo, mid)
           ELSE CbrtSearch(x, mid, hi)

\* Signed cube root.
Cbrt(x) == IF x = 0 THEN 0 ELSE Sgn(x, 1) * CbrtSearch(Abs(x), 0, 2097152)

\* Largest y in lo..hi-1 with y^2 <= x, for Scale <= x <= 2*Scale.
RECURSIVE SqrtSearch(_, _, _)
SqrtSearch(x, lo, hi) ==
  IF hi - lo <= 1 THEN lo
  ELSE LET mid == (lo + hi) \div 2
       IN  IF MulU(mid, mid) <= x
           THEN SqrtSearch(x, mid, hi)
           ELSE SqrtSearch(x, lo, mid)

\* mx * sqrt(1 + q^2), q = mn/mx.
HypotScaled(mx, q) == MulU(mx, SqrtSearch(Scale + MulU(q, q), Scale, 2 * Scale))

\* sqrt(mx^2 + mn^2) for mx >= mn >= 0.
HypotOrdered(mx, mn) == IF mx = 0 THEN 0 ELSE HypotScaled(mx, DivU(mn, mx))

\* sqrt(a^2 + b^2).
Hypot(a, b) == HypotOrdered(Max(Abs(a), Abs(b)), Min(Abs(a), Abs(b)))

\* q * P(q2) in radians, P the odd minimax polynomial of arctan on [0, 1].
AtanPoly(q, q2) ==
  MulS(q, 999977 + MulS(q2, -332623 + MulS(q2, 193543 + MulS(q2,
          -116433 + MulS(q2, 52653 + MulS(q2, -11721))))))

\* arctan(q) in millidegrees for 0 <= q <= 1.
AtanDeg(q) == MulU(AtanPoly(q, MulU(q, q)), 57295780) \div 1000

\* The angle of (a, b) given t = arctan(min/max) of the absolute values.
AtanQuadrant(a, b, t) ==
  LET oct == IF Abs(a) >= Abs(b) THEN t ELSE 90000 - t
  IN  IF a >= 0 /\ b >= 0 THEN oct
      ELSE IF a < 0 /\ b >= 0 THEN 180000 - oct
      ELSE IF a < 0 /\ b < 0 THEN 180000 + oct
      ELSE (FullTurn - oct) % FullTurn

\* atan2(b, a) in millidegrees, normalised to [0, 360).
Atan2(b, a) ==
  IF a = 0 /\ b = 0 THEN 0
  ELSE AtanQuadrant(a, b, AtanDeg(DivU(Min(Abs(a), Abs(b)), Max(Abs(a), Abs(b)))))

\* Millidegrees (0..90000) to radians.
Rad(md) == MulU(md, 17453293)

\* sin x from x and x2 = x^2, 0 <= x <= pi/4 (Taylor, Horner form).
SinPoly(x, x2) ==
  MulU(x, Scale - (MulU(x2, Scale - (MulU(x2, Scale - (x2 \div 42)) \div 20)) \div 6))

\* cos x from x2 = x^2, 0 <= x <= pi/4 (Taylor, Horner form).
CosPoly(x2) ==
  Scale - (MulU(x2, Scale - (MulU(x2, Scale - (MulU(x2,
             Scale - (x2 \div 56)) \div 30)) \div 12)) \div 2)

SinR(x) == SinPoly(x, MulU(x, x))

CosR(x) == CosPoly(MulU(x, x))

\* sin of a first-quadrant angle in millidegrees.
SinQ(md) == IF md <= 45000 THEN SinR(Rad(md)) ELSE CosR(Rad(90000 - md))

\* sin of an angle in millidegrees, 0 <= h < 360000.
Sin(h) ==
  (IF h <= 180000 THEN 1 ELSE -1)
  * SinQ(IF h <= 90000 THEN h
         ELSE IF h <= 180000 THEN 180000 - h
         ELSE IF h <= 270000 THEN h - 180000
         ELSE FullTurn - h)

\* cos of an angle in millidegrees, 0 <= h < 360000.
Cos(h) == Sin((h + 90000) % FullTurn)

\* ------------------------------------------------------------------------
\* crate::color::Color: 8-bit sRGB with Oklch conversions
\* ------------------------------------------------------------------------

Channel == 0..255

\* Color::new(r, g, b).
Color_new(r, g, b) == [r |-> r, g |-> g, b |-> b]

\* Oklch::new(l, chroma, hue); the hue is stored as an angle, mod 360.
Oklch_new(l, chroma, hue) == [l |-> l, chroma |-> chroma, hue |-> hue % FullTurn]

\* Linear-light value of each 8-bit sRGB channel value (index u+1).
SrgbExpand ==
  << 0, 304, 607, 911, 1214, 1518, 1821, 2125, 2428, 2732, 3035, 3347,
     3677, 4025, 4391, 4777, 5182, 5605, 6049, 6512, 6995, 7499, 8023, 8568,
     9134, 9721, 10330, 10960, 11612, 12286, 12983, 13702, 14444, 15209, 15996, 16807,
     17642, 18500, 19382, 20289, 21219, 22174, 23153, 24158, 25187, 26241, 27321, 28426,
     29557, 30713, 31896, 33105, 34340, 35601, 36889, 38204, 39546, 40915, 42311, 43735,
     45186, 46665, 48172, 49707, 51269, 52861, 54480, 56128, 57805, 59511, 61246, 63010,
     64803, 66626, 68478, 70360, 72272, 74214, 76185, 78187, 80220, 82283, 84376, 86500,
     88656, 90842, 93059, 95307, 97587, 99899, 102242, 104616, 107023, 109462, 111932, 114435,
     116971, 119538, 122139, 124772, 127438, 130136, 132868, 135633, 138432, 141263, 144128, 147027,
     149960, 152926, 155926, 158961, 162029, 165132, 168269, 171441, 174647, 177888, 181164, 184475,
     187821, 191202, 194618, 198069, 201556, 205079, 208637, 212231, 215861, 219526, 223228, 226966,
     230740, 234551, 238398, 242281, 246201, 250158, 254152, 258183, 262251, 266356, 270498, 274677,
     278894, 283149, 287441, 291771, 296138, 300544, 304987, 309469, 313989, 318547, 323143, 327778,
     332452, 337164, 341914, 346704, 351533, 356400, 361307, 366253, 371238, 376262, 381326, 386429,
     391572, 396755, 401978, 407240, 412543, 417885, 423268, 428690, 434154, 439657, 445201, 450786,
     456411, 462077, 467784, 473531, 479320, 485150, 491021, 496933, 502886, 508881, 514918, 520996,
     527115, 533276, 539479, 545724, 552011, 558340, 564712, 571125, 577580, 584078, 590619, 597202,
     603827, 610496, 617207, 623960, 630757, 637597, 644480, 651406, 658375, 665387, 672443, 679542,
     686685, 693872, 701102, 708376, 715694, 723055, 730461, 737910, 745404, 752942, 760525, 768151,
     775822, 783538, 791298, 799103, 806952, 814847, 822786, 830770, 838799, 846873, 854993, 863157,
     871367, 879622, 887923, 896269, 904661, 913099, 921582, 930111, 938686, 947307, 955973, 964686,
     973445, 982251, 991102, 1000000 >>

\* SrgbThreshold[u]: least linear-light value that encodes to channel value u.
SrgbThreshold ==
  << 152, 455, 759, 1062, 1366, 1669, 1973, 2276, 2580, 2884, 3188, 3509,
     3848, 4206, 4582, 4977, 5391, 5825, 6278, 6751, 7245, 7759, 8293, 8848,
     9425, 10023, 10642, 11283, 11947, 12632, 13340, 14070, 14823, 15600, 16399, 17222,
     18068, 18938, 19832, 20751, 21693, 22661, 23652, 24669, 25711, 26778, 27870, 28988,
     30132, 31301, 32497, 33719, 34967, 36242, 37544, 38872, 40227, 41610, 43020, 44457,
     45922, 47415, 48936, 50484, 52062, 53667, 55301, 56963, 58655, 60375, 62124, 63903,
     65711, 67548, 69415, 71312, 73239, 75196, 77183, 79200, 81247, 83326, 85434, 87574,
     89745, 91946, 94179, 96443, 98739, 101066, 103425, 105816, 108238, 110693, 113180, 115699,
     118250, 120835, 123451, 126101, 128783, 131498, 134247, 137028, 139843, 142692, 145574, 148489,
     151439, 154422, 157439, 160491, 163576, 166696, 169851, 173040, 176264, 179522, 182815, 186143,
     189507, 192905, 196339, 199808, 203313, 206853, 210429, 214041, 217689, 221373, 225092, 228848,
     232641, 236470, 240335, 244237, 248175, 252151, 256163, 260212, 264298, 268422, 272583, 276781,
     281017, 285290, 289601, 293950, 298336, 302761, 307223, 311724, 316263, 320840, 325456, 330110,
     334803, 339534, 344304, 349113, 353961, 358849, 363775, 368740, 373745, 378789, 383873, 388996,
     394159, 399362, 404604, 409886, 415209, 420571, 425974, 431417, 436900, 442424, 447988, 453593,
     459239, 464925, 470653, 476421, 482230, 488080, 493972, 499905, 505879, 511894, 517951, 524050,
     530191, 536373, 542597, 548863, 555171, 561521, 567913, 574347, 580824, 587343, 593905, 600509,
     607156, 613846, 620578, 627353, 634172, 641033, 647937, 654885, 661876, 668910, 675987, 683108,
     690273, 697481, 704733, 712029, 719369, 726752, 734180, 741652, 749168, 756728, 764332, 771981,
     779674, 787412, 795195, 803022, 810894, 818811, 826772, 834779, 842830, 850927, 859069, 867256,
     875489, 883767, 892091, 900460, 908874, 917335, 925841, 934393, 942990, 951634, 960324, 969060,
     977842, 986671, 995545 >>

\* Largest u in lo..hi whose threshold is <= x (u = 0 has no threshold).
RECURSIVE CompressSearch(_, _, _)
CompressSearch(x, lo, hi) ==
  IF lo = hi THEN lo
  ELSE LET mid == (lo + hi + 1) \div 2
       IN  IF SrgbThreshold[mid] <= x
           THEN CompressSearch(x, mid, hi)
           ELSE CompressSearch(x, lo, mid - 1)

\* Linear-light channel to 8 bits: clamp to [0, 1], encode, round.
SrgbCompress(x) == CompressSearch(Max(0, Min(Scale, x)), 0, 255)

\* Oklab (L, a, b) to its polar form.
LabToOklch(L, A, B) == [l |-> L, chroma |-> Hypot(A, B), hue |-> Atan2(B, A)]

\* Cube roots of the LMS cone responses to Oklab.
LmsToOklch(l_, m_, s_) ==
  LabToOklch(MulS(210454, l_) + MulS(793618, m_) - MulS(4072, s_),
             MulS(1977998, l_) - MulS(2428592, m_) + MulS(450594, s_),
             MulS(25904, l_) + MulS(782772, m_) - MulS(808676, s_))

\* Linear-light sRGB to Oklch.
LinearToOklch(r, g, b) ==
  LmsToOklch(Cbrt(MulS(412221, r) + MulS(536333, g) + MulS(51446, b)),
             Cbrt(MulS(211903, r) + MulS(680700, g) + MulS(107397, b)),
             Cbrt(MulS(88302, r) + MulS(281719, g) + MulS(629979, b)))

\* Color::to_oklch: sRGB -> linear -> LMS -> Oklab -> polar form.
Color_to_oklch(c) ==
  LinearToOklch(SrgbExpand[c.r + 1], SrgbExpand[c.g + 1], SrgbExpand[c.b + 1])

\* LMS cone responses to sRGB, each channel clamped to the gamut and
\* quantised to 8 bits.
LmsToColor(l, m, s) ==
  [r |-> SrgbCompress(MulS(4076742, l) - MulS(3307712, m) + MulS(230970, s)),
   g |-> SrgbCompress(MulS(2609757, m) - MulS(1268438, l) - MulS(341319, s)),
   b |-> SrgbCompress(MulS(1707615, s) - MulS(4196, l) - MulS(703419, m))]

\* Oklab (L, a, b) to sRGB.
LabToColor(L, A, B) ==
  LmsToColor(Cube(L + MulS(396338, A) + MulS(215804, B)),
             Cube(L - MulS(105561, A) - MulS(63854, B)),
             Cube(L - MulS(89484, A) - MulS(1291486, B)))

\* Color::from_oklch: polar Oklab -> LMS -> linear sRGB, gamut clamp.
Color_from_oklch(o) ==
  LabToColor(o.l, MulS(o.chroma, Cos(o.hue)), MulS(o.chroma, Sin(o.hue)))

\* The Oklch value o with its lightness raised by delta, clamped to [0, 1].
Lighten(o, delta) == [l |-> Max(0, Min(Scale, o.l + delta)), chroma |-> o.chroma, hue |-> o.hue]

\* Color::adjust_lightness(delta): lightness + delta clamped to [0, 1],
\* chroma and hue kept, back through the gamut clamp.
adjust_lightness(c, delta) == Color_from_oklch(Lighten(Color_to_oklch(c), delta))

\* ------------------------------------------------------------------------
\* pipeline/assign.rs
\* ------------------------------------------------------------------------

\* Target Oklch hue angles for the six ANSI accent slots, as <<slot, hue>>.
TARGET_HUES ==
  << <<1, 25000>>, <<2, 145000>>, <<3, 90000>>,
     <<4, 260000>>, <<5, 325000>>, <<6, 195000>> >>

MAX_HUE_DISTANCE == 60000

BRIGHT_L_DELTA == 120000

MIN_CHROMA == 20000

BASE_MAX_CHROMA == 40000

TEXT_MAX_CHROMA == 20000

SlotIndex == 0..15

\* Angular distance between two hue values, wrapped to [0, 180].
hue_distance(a, b) ==
  LET diff == Abs(a - b) % FullTurn
  IN  IF diff > 180000 THEN FullTurn - diff ELSE diff

\* Variant of is_chromatic that lets every candidate through.
is_chromatic_any(c) == c.chroma >= 0

\* A candidate counts as chromatic (not gray) above MIN_CHROMA.
is_chromatic(c) == c.chroma > MIN_CHROMA

\* candidates.iter().copied().filter(is_chromatic).collect(), order kept.
RECURSIVE FilterChromatic(_)
FilterChromatic(seq) ==
  IF seq = <<>> THEN <<>>
  ELSE (IF is_chromatic(Head(seq)) THEN <<Head(seq)>> ELSE <<>>)
       \o FilterChromatic(Tail(seq))

\* Iterator::min_by on a key sequence: index of the first least key from
\* position i on, given the best index so far.
RECURSIVE MinByFrom(_, _, _)
MinByFrom(keys, i, best) ==
  IF i > Len(keys) THEN best
  ELSE MinByFrom(keys, i + 1, IF keys[best] > keys[i] THEN i ELSE best)

\* Iterator::max_by on a key sequence: index of the last greatest key.
RECURSIVE MaxByFrom(_, _, _)
MaxByFrom(keys, i, best) ==
  IF i > Len(keys) THEN best
  ELSE MaxByFrom(keys, i + 1, IF keys[best] > keys[i] THEN best ELSE i)

\* The hue distance of each candidate to target_hue.
hue_keys(candidates, target_hue) ==
  [i \in 1..Len(candidates) |-> hue_distance(candidates[i].hue, target_hue)]

\* Find the candidate with the smallest hue distance to target_hue;
\* Option<Oklch> as a sequence of length 0 or 1.
find_closest_by_hue(candidates, target_hue) ==
  IF candidates = <<>> THEN <<>>
  ELSE <<candidates[MinByFrom(hue_keys(candidates, target_hue), 2, 1)]>>

\* The slot colour for a target hue given the closest chromatic candidate:
\* the candidate itself within MAX_HUE_DISTANCE, else its hue rotated to
\* the target.
accent_from(best, target_hue) ==
  IF hue_distance(best.hue, target_hue) <= MAX_HUE_DISTANCE
  THEN Color_from_oklch(best)
  ELSE Color_from_oklch(Oklch_new(best.l, best.chroma, target_hue))

\* The colour assign_accents gives the slot of one target hue.
accent_for(chromatic, target_hue) ==
  IF chromatic # <<>>
  THEN accent_from(find_closest_by_hue(chromatic, target_hue)[1], target_hue)
  ELSE Color_from_oklch(Oklch_new(650000, 150000, target_hue))

\* The target hue of an accent slot.
target_hue_of(slot) ==
  TARGET_HUES[CHOOSE t \in 1..Len(TARGET_HUES) : TARGET_HUES[t][1] = slot][2]

\* The accent slots with their colours, given the chromatic candidates.
accents_from(chromatic) ==
  [slot \in {TARGET_HUES[t][1] : t \in 1..Len(TARGET_HUES)} |->
     accent_for(chromatic, target_hue_of(slot))]

\* Variant of assign_accents that skips the chroma filter.
assign_accents_unfiltered(candidates) == accents_from(candidates)

\* Assign accent colors (slots 1-6) by hue proximity to target hues:
\* the slots written, with their new values.
assign_accents(candidates) == accents_from(FilterChromatic(candidates))

\* The lightness of each candidate.
lightness_keys(candidates) == [i \in 1..Len(candidates) |-> candidates[i].l]

\* Variant of dark_base that looks at the chromatic candidates only.
dark_base_chromatic(candidates) ==
  IF FilterChromatic(candidates) = <<>> THEN Oklch_new(150000, 0, 0)
  ELSE FilterChromatic(candidates)[
         MinByFrom(lightness_keys(FilterChromatic(candidates)), 2, 1)]

\* The darkest candidate by Oklch lightness, or the dark fallback.
dark_base(candidates) ==
  IF candidates = <<>> THEN Oklch_new(150000, 0, 0)
  ELSE candidates[MinByFrom(lightness_keys(candidates), 2, 1)]

\* The lightest candidate by Oklch lightness, or the light fallback.
light_base(candidates) ==
  IF candidates = <<>> THEN Oklch_new(930000, 0, 0)
  ELSE candidates[MaxByFrom(lightness_keys(candidates), 2, 1)]

\* ThemeMode::Dark: slots 0, 7, 8, 15 from the dark and the light base.
base_colors_dark(dark, light) ==
     (0 :> Color_from_oklch(Oklch_new(Min(dark.l, 150000),
                                      Min(dark.chroma, BASE_MAX_CHROMA), dark.hue)))
  @@ (7 :> Color_from_oklch(Oklch_new(850000,
                                      Min(light.chroma, TEXT_MAX_CHROMA), light.hue)))
  @@ (8 :> Color_from_oklch(Oklch_new(400000,
                                      Min(dark.chroma, BASE_MAX_CHROMA), dark.hue)))
  @@ (15 :> Color_from_oklch(Oklch_new(930000,
                                       Min(light.chroma, TEXT_MAX_CHROMA), light.hue)))

\* ThemeMode::Light: slot 0 = lightest (background), slot 15 = darkest.
base_colors_light(dark, light) ==
     (0 :> Color_from_oklch(Oklch_new(Max(light.l, 930000),
                                      Min(light.chroma, TEXT_MAX_CHROMA), light.hue)))
  @@ (7 :> Color_from_oklch(Oklch_new(200000,
                                      Min(dark.chroma, TEXT_MAX_CHROMA), dark.hue)))
  @@ (8 :> Color_from_oklch(Oklch_new(600000,
                                      Min(light.chroma, BASE_MAX_CHROMA), light.hue)))
  @@ (15 :> Color_from_oklch(Oklch_new(Min(dark.l, 150000),
                                       Min(dark.chroma, TEXT_MAX_CHROMA), dark.hue)))

\* Variant of assign_base_colors that takes the Dark branch in both modes.
assign_base_colors_dark_only(candidates, mode) ==
  base_colors_dark(dark_base(candidates), light_base(candidates))

\* Assign base colors (slots 0, 7, 8, 15) based on theme mode:
\* the slots written, with their new values.
assign_base_colors(candidates, mode) ==
  IF mode = "Dark"
  THEN base_colors_dark(dark_base(candidates), light_base(candidates))
  ELSE base_colors_light(dark_base(candidates), light_base(candidates))

\* Variant of assign_bright_variants whose loop stops one accent early.
assign_bright_variants_short(slots) ==
  [j \in {i + 8 : i \in 1..5} |-> adjust_lightness(slots[j - 8], BRIGHT_L_DELTA)]

\* Variant of assign_bright_variants that copies the accent unchanged.
assign_bright_variants_copy(slots) ==
  [j \in {i + 8 : i \in 1..6} |-> slots[j - 8]]

\* Generate bright variants (slots 9-14) from normal accents (slots 1-6):
\* the slots written, with their new values.
assign_bright_variants(slots) ==
  [j \in {i + 8 : i \in 1..6} |-> adjust_lightness(slots[j - 8], BRIGHT_L_DELTA)]

\* Variant of selection_bg_from that raises the lightness in either mode.
selection_bg_from_raised(sel, mode) ==
  Color_from_oklch(
    Oklch_new(Min(sel.l + 100000, Scale),
              Max(MulS(sel.chroma, 600000), 10000),
              sel.hue))

\* Selection: blue accent (slot 4) with reduced chroma, its lightness moved
\* by 0.1 away from the background.
selection_bg_from(sel, mode) ==
  Color_from_oklch(
    Oklch_new(IF mode = "Dark" THEN Min(sel.l + 100000, Scale)
              ELSE Max(sel.l - 100000, 0),
              Max(MulS(sel.chroma, 600000), 10000),
              sel.hue))

\* Variant of derive_special_colors that takes the foreground from slot 7.
derive_special_colors_white(slots, mode) ==
  [slots        |-> slots,
   background   |-> slots[0],
   foreground   |-> slots[7],
   cursor_color |-> slots[7],
   cursor_text  |-> slots[0],
   selection_bg |-> slots[4],
   selection_fg |-> slots[7]]

\* Derive special theme colors (background, foreground, cursor, selection).
derive_special_colors(slots, mode) ==
  [slots        |-> slots,
   background   |-> slots[0],
   foreground   |-> slots[15],
   cursor_color |-> slots[15],
   cursor_text  |-> slots[0],
   selection_bg |-> selection_bg_from(Color_to_oklch(slots[4]), mode),
   selection_fg |-> slots[15]]

\* slots[slot] = value for every slot the update names.
WriteSlots(slots, upd) ==
  [i \in SlotIndex |-> IF i \in DOMAIN upd THEN upd[i] ELSE slots[i]]

\* Variant of to_oklch_colors that leaves out the colours of small weight.
RECURSIVE to_oklch_colors_weighted(_)
to_oklch_colors_weighted(colors) ==
  IF colors = <<>> THEN <<>>
  ELSE (IF Head(colors).weight >= 200000
        THEN <<Color_to_oklch(Head(colors).color)>> ELSE <<>>)
       \o to_oklch_colors_weighted(Tail(colors))

\* colors.iter().map(|c| c.color.to_oklch()).collect()
to_oklch_colors(colors) ==
  [i \in 1..Len(colors) |-> Color_to_oklch(colors[i].color)]

\* assign_slots from the call of derive_special_colors on.
assign_slots_bright(slots, mode) ==
  derive_special_colors(WriteSlots(slots, assign_bright_variants(slots)), mode)

\* assign_slots from the call of assign_bright_variants on.
assign_slots_base(slots, oklch_colors, mode) ==
  assign_slots_bright(WriteSlots(slots, assign_base_colors(oklch_colors, mode)), mode)

\* assign_slots from the call of assign_accents on.
assign_slots_accents(oklch_colors, mode) ==
  assign_slots_base(WriteSlots([i \in SlotIndex |-> Color_new(0, 0, 0)],
                               assign_accents(oklch_colors)),
                    oklch_colors, mode)

\* Assign extracted colors to ANSI palette slots.
assign_slots(colors, mode) == assign_slots_accents(to_oklch_colors(colors), mode)

\* ------------------------------------------------------------------------
\* pipeline/extract.rs
\* ------------------------------------------------------------------------

MAX_DIM == 256

\* Variant of resize_dimensions that ignores the aspect ratio.
resize_dimensions_exact(width, height, nwidth, nheight) == <<nwidth, nheight>>

\* DynamicImage::resize(nwidth, nheight, filter): the dimensions of the
\* result, scaled by the smaller of the two ratios, each rounded to the
\* nearest integer and at least 1.
resize_dimensions(width, height, nwidth, nheight) ==
  LET byWidth == nwidth * height <= nheight * width
      nw == IF byWidth THEN (2 * width * nwidth + width) \div (2 * width)
            ELSE (2 * width * nheight + height) \div (2 * height)
      nh == IF byWidth THEN (2 * height * nwidth + width) \div (2 * width)
            ELSE (2 * height * nheight + height) \div (2 * height)
  IN  <<Max(nw, 1), Max(nh, 1)>>

\* image::open(path): decoding succeeds only for an existing image file.
image_open(file) == file.exists /\ file.decodable

\* The context message attached to a failed image::open.
open_context(file) ==
  IF ~file.exists THEN "file not found"
  ELSE "unsupported or corrupt image"

\* Load an image, resize to fit within 256x256 (preserving aspect ratio),
\* and convert all pixels to CIELAB space: Result<Vec<Lab>>, the pixel
\* vector given by the dimensions of the prepared image and its length.
load_and_prepare(file) ==
  IF ~image_open(file)
  THEN [ok |-> FALSE,
        error |-> [kind |-> "anyhow::Error", context |-> open_context(file)],
        width |-> 0, height |-> 0, len |-> 0]
  ELSE LET dims == IF file.width > MAX_DIM \/ file.height > MAX_DIM
                   THEN resize_dimensions(file.width, file.height, MAX_DIM, MAX_DIM)
                   ELSE <<file.width, file.height>>
       IN  [ok |-> TRUE,
            error |-> [kind |-> "none", context |-> ""],
            width |-> dims[1], height |-> dims[2], len |-> dims[1] * dims[2]]

\* Run K-means on LAB pixels to extract dominant colors: the body is
\* todo!(), which panics whatever the arguments.
extract_colors(pixels, k) == [panicked |-> TRUE, value |-> <<>>]

\* ------------------------------------------------------------------------
\* backends/ghostty.rs
\* ------------------------------------------------------------------------
\* Text is a sequence of characters, a character a string of length one.

HexDigit ==
  <<"0", "1", "2", "3", "4", "5", "6", "7", "8", "9", "a", "b", "c", "d", "e", "f">>

DecDigit == <<"0", "1", "2", "3", "4", "5", "6", "7", "8", "9">>

\* One channel as two lowercase hex digits ({:02x}).
hex_byte(v) == <<HexDigit[(v \div 16) + 1], HexDigit[(v % 16) + 1]>>

\* Color::to_hex: lowercase #rrggbb, always length 7.
to_hex(c) == <<"#">> \o hex_byte(c.r) \o hex_byte(c.g) \o hex_byte(c.b)

\* A slot index printed by {} (decimal, no padding).
format_index(i) ==
  IF i < 10 THEN <<DecDigit[i + 1]>>
  ELSE <<DecDigit[(i \div 10) + 1], DecDigit[(i % 10) + 1]>>

\* The literal texts of the format strings of serialize.
background_key == <<"b","a","c","k","g","r","o","u","n","d"," ","="," ">>

foreground_key == <<"f","o","r","e","g","r","o","u","n","d"," ","="," ">>

cursor_color_key == <<"c","u","r","s","o","r","-","c","o","l","o","r"," ","="," ">>

cursor_text_key == <<"c","u","r","s","o","r","-","t","e","x","t"," ","="," ">>

selection_background_key ==
  <<"s","e","l","e","c","t","i","o","n","-","b","a","c","k","g","r","o","u","n","d"," ","="," ">>

selection_foreground_key ==
  <<"s","e","l","e","c","t","i","o","n","-","f","o","r","e","g","r","o","u","n","d"," ","="," ">>

palette_key == <<"p","a","l","e","t","t","e"," ","="," ">>

\* format!("<key> = {}\n", color.to_hex())
special_line(key, color) == key \o to_hex(color) \o <<"\n">>

\* Variant of palette_line with spaces around the inner '='.
palette_line_spaced(i, color) ==
  palette_key \o format_index(i) \o <<" ", "=", " ">> \o to_hex(color) \o <<"\n">>

\* format!("palette = {}={}\n", i, color.to_hex())
palette_line(i, color) ==
  palette_key \o format_index(i) \o <<"=">> \o to_hex(color) \o <<"\n">>

\* The loop over p.slots.iter().enumerate(), from index i on.
RECURSIVE palette_lines(_, _)
palette_lines(slots, i) ==
  IF i > 15 THEN <<>>
  ELSE palette_line(i, slots[i]) \o palette_lines(slots, i + 1)

\* GhosttyBackend::serialize
serialize(p, theme_name) ==
  special_line(background_key, p.background)
  \o special_line(foreground_key, p.foreground)
  \o special_line(cursor_color_key, p.cursor_color)
  \o special_line(cursor_text_key, p.cursor_text)
  \o special_line(selection_background_key, p.selection_bg)
  \o special_line(selection_foreground_key, p.selection_fg)
  \o palette_lines(p.slots, 0)

\* A path is the sequence of its components; an absolute path starts with
\* the root component "/".
is_absolute(path) == path # <<>> /\ path[1] = "/"

\* PathBuf::join: an absolute argument replaces the base.
path_join(base, path) == IF is_absolute(path) THEN path ELSE base \o path

\* The directories create_dir_all makes sure exist: the path and its
\* ancestors.
ancestors(path) == {SubSeq(path, 1, n) : n \in 1..Len(path)}

parent(path) == SubSeq(path, 1, Len(path) - 1)

\* The configuration directory themes_dir starts from. An environment
\* variable is a sequence holding its value, empty when it is not set.
config_home(env) ==
  IF env.XDG_CONFIG_HOME # <<>> THEN env.XDG_CONFIG_HOME[1]
  ELSE path_join(IF env.HOME # <<>> THEN env.HOME[1] ELSE <<"~">>, <<".config">>)

\* Resolve the Ghostty themes directory.
themes_dir(env) == path_join(path_join(config_home(env), <<"ghostty">>), <<"themes">>)

\* std::fs::write(path, content): needs the parent directory and the
\* system's consent; replaces whatever the file held.
fs_write(fs, path, content, permitted) ==
  IF permitted /\ path # <<>> /\ parent(path) \in fs.dirs /\ path \notin fs.dirs
  THEN [ok |-> TRUE, fs |-> [fs EXCEPT !.files = [q \in DOMAIN fs.files \cup {path} |->
                                      IF q = path THEN content ELSE fs.files[q]]]]
  ELSE [ok |-> FALSE, fs |-> fs]

\* std::fs::create_dir_all(dir)
fs_create_dir_all(fs, dir, permitted) ==
  IF permitted /\ ancestors(dir) \cap DOMAIN fs.files = {}
  THEN [ok |-> TRUE, fs |-> [fs EXCEPT !.dirs = fs.dirs \cup ancestors(dir)]]
  ELSE [ok |-> FALSE, fs |-> fs]

\* The outcome of write_to, given that of fs::write.
write_to_result(written, path) ==
  [ok      |-> written.ok,
   path    |-> <<>>,
   context |-> IF written.ok THEN "" ELSE "failed to write theme to",
   fs      |-> written.fs]

\* GhosttyBackend::write_to
write_to(fs, p, theme_name, path, permitted) ==
  write_to_result(fs_write(fs, path, serialize(p, theme_name), permitted), path)

\* install after create_dir_all: the write, and the path returned.
install_write(written, path) ==
  [ok      |-> written.ok,
   path    |-> IF written.ok THEN <<path>> ELSE <<>>,
   context |-> written.context,
   fs      |-> written.fs]

\* install, given the outcome of create_dir_all.
install_in(made, dir, p, theme_name, write_permitted) ==
  IF made.ok
  THEN install_write(write_to(made.fs, p, theme_name, path_join(dir, theme_name),
                              write_permitted),
                     path_join(dir, theme_name))
  ELSE [ok |-> FALSE, path |-> <<>>,
        context |-> "failed to create themes directory", fs |-> made.fs]

\* GhosttyBackend::install
install(fs, env, p, theme_name, mkdir_permitted, write_permitted) ==
  install_in(fs_create_dir_all(fs, themes_dir(env), mkdir_permitted),
             themes_dir(env), p, theme_name, write_permitted)

\* ------------------------------------------------------------------------
\* tui/mod.rs
\* ------------------------------------------------------------------------

\* Option<usize>: None is the empty sequence, Some(n) the sequence <<n>>.
None == <<>>

Some(n) == <<n>>

\* The ASCII codes of the digit characters (c as u8).
CharCode ==
  [c \in {"0", "1", "2", "3", "4", "5", "6", "7", "8", "9"} |->
     CASE c = "0" -> 48 [] c = "1" -> 49 [] c = "2" -> 50 [] c = "3" -> 51
       [] c = "4" -> 52 [] c = "5" -> 53 [] c = "6" -> 54 [] c = "7" -> 55
       [] c = "8" -> 56 [] c = "9" -> 57]

\* TuiApp::new
TuiApp_new(palette, extracted_colors, image_path, mode, theme_name) ==
  [palette          |-> palette,
   extracted_colors |-> extracted_colors,
   image_path       |-> image_path,
   mode             |-> mode,
   selected_slot    |-> None,
   theme_name       |-> theme_name,
   show_help        |-> FALSE]

\* Variant of cycle_slot that stops at the last slot instead of wrapping.
cycle_slot_saturating(app) ==
  [app EXCEPT !.selected_slot =
     Some(IF app.selected_slot = None THEN 0
          ELSE IF app.selected_slot = Some(15) THEN 15
          ELSE app.selected_slot[1] + 1)]

\* Variant of cycle_slot that wraps one slot late.
cycle_slot_late(app) ==
  [app EXCEPT !.selected_slot =
     Some(IF app.selected_slot = None \/ app.selected_slot = Some(16) THEN 0
          ELSE app.selected_slot[1] + 1)]

\* Variant of cycle_slot that also paints the slot it leaves black.
cycle_slot_painting(app) ==
  [app EXCEPT !.selected_slot =
                 Some(IF app.selected_slot = None \/ app.selected_slot = Some(15) THEN 0
                      ELSE app.selected_slot[1] + 1),
              !.palette.slots[0] = [r |-> 1, g |-> 2, b |-> 3]]

\* cycle_slot
cycle_slot(app) ==
  [app EXCEPT !.selected_slot =
     Some(IF app.selected_slot = None \/ app.selected_slot = Some(15) THEN 0
          ELSE app.selected_slot[1] + 1)]

\* cycle_slot_reverse
cycle_slot_reverse(app) ==
  [app EXCEPT !.selected_slot =
     Some(IF app.selected_slot = None \/ app.selected_slot = Some(0) THEN 15
          ELSE app.selected_slot[1] - 1)]

\* KeyCode::Char('?')
toggle_help(app) == [app EXCEPT !.show_help = ~app.show_help]

\* KeyCode::Char(c @ '1'..='6')
select_digit(app, c) ==
  [app EXCEPT !.selected_slot = Some((CharCode[c] - CharCode["0"]) % 256)]

\* Variant of handle_esc that deselects whether or not the help is shown.
handle_esc_always(app) ==
  [app EXCEPT !.show_help = FALSE, !.selected_slot = None]

\* KeyCode::Esc
handle_esc(app) ==
  IF app.show_help THEN [app EXCEPT !.show_help = FALSE]
  ELSE [app EXCEPT !.selected_slot = None]

\* ------------------------------------------------------------------------
\* Inputs
\* ------------------------------------------------------------------------

\* Longest list of extracted colours handed to assign_slots.
MaxColors == 2

\* Longest Lab pixel vector handed to extract_colors.
MaxPixels == 2

\* Largest cluster count handed to extract_colors.
MaxK == 3

\* Black, white, a warm grey below the chroma threshold, red, teal, pure
\* blue and a pale yellow close to the top of the gamut.
InputColors ==
  { Color_new(0, 0, 0), Color_new(255, 255, 255), Color_new(134, 128, 120),
    Color_new(200, 60, 50), Color_new(0, 100, 110), Color_new(0, 0, 255),
    Color_new(255, 255, 200) }

\* Cluster weights (fractions of the sampled pixels).
InputWeights == {150000, 400000}

ExtractedColor == [color : InputColors, weight : InputWeights]

ThemeMode == {"Dark", "Light"}

SeqsUpTo(S, n) == UNION {[1..m -> S] : m \in 0..n}

\* Width and height of the images on disk.
ImageDims == {1, 4, 256, 257, 512, 1000}

\* What a path can name: nothing, a file that is no image, an image.
Files ==
  { [exists |-> FALSE, decodable |-> FALSE, width |-> 0, height |-> 0],
    [exists |-> TRUE, decodable |-> FALSE, width |-> 0, height |-> 0] }
  \cup [exists : {TRUE}, decodable : {TRUE}, width : ImageDims, height : ImageDims]

LabValues == { [l |-> 0, a |-> 0, b |-> 0], [l |-> 53000000, a |-> 80000000, b |-> 67000000] }

\* A palette with a different colour in every place, and the all-black one.
SamplePalette ==
  [slots        |-> [i \in SlotIndex |-> Color_new(17 * i, 255 - 16 * i, (i * i) % 256)],
   background   |-> Color_new(10, 11, 12),
   foreground   |-> Color_new(250, 171, 205),
   cursor_color |-> Color_new(1, 35, 69),
   cursor_text  |-> Color_new(103, 137, 171),
   selection_bg |-> Color_new(205, 239, 0),
   selection_fg |-> Color_new(255, 254, 160)]

SamplePalettes ==
  { SamplePalette,
    [slots |-> [i \in SlotIndex |-> Color_new(0, 0, 0)],
     background |-> Color_new(0, 0, 0), foreground |-> Color_new(0, 0, 0),
     cursor_color |-> Color_new(0, 0, 0), cursor_text |-> Color_new(0, 0, 0),
     selection_bg |-> Color_new(0, 0, 0), selection_fg |-> Color_new(0, 0, 0)] }

\* Theme names: a plain file name and an absolute path.
ThemeNames == { <<"my-theme">>, <<"/", "tmp", "my-theme">> }

\* The environment: each variable set or not.
Envs ==
  [XDG_CONFIG_HOME : { <<>>, << <<"/", "xdg">> >> },
   HOME            : { <<>>, << <<"/", "home", "u">> >> }]

\* File systems before a call: a bare one, one that holds the themes
\* directory under /xdg already, and one where /xdg is a regular file.
FileSystems ==
  { [dirs |-> { <<"/">>, <<"/", "tmp">> }, files |-> <<>>],
    [dirs |-> { <<"/">>, <<"/", "tmp">> } \cup ancestors(<<"/", "xdg", "ghostty", "themes">>),
     files |-> <<>>],
    [dirs |-> { <<"/">>, <<"/", "tmp">> },
     files |-> [q \in { <<"/", "xdg">> } |-> <<"x">>]] }

\* Paths handed to write_to: one in an existing directory, one not.
OutputPaths == { <<"/", "tmp", "out-theme">>, <<"/", "missing", "out-theme">> }

\* Key codes of the press events the event loop reads.
KeyCodes ==
  { "q", "?", "Tab", "BackTab", "Esc", "0", "1", "2", "3", "4", "5", "6", "7",
    "x", "Enter" }

\* The characters of the pattern '1'..='6'.
SlotDigits == { c \in DOMAIN CharCode : CharCode[c] >= CharCode["1"] /\ CharCode[c] <= CharCode["6"] }

\* Extracted colours shown by the viewer.
ViewerColors == { <<>>, <<[color |-> Color_new(200, 60, 50), weight |-> 400000]>> }

\* ------------------------------------------------------------------------
\* State
\* ------------------------------------------------------------------------

VARIABLES
  pc,            \* which call is running, and where it stands
  file,          \* load_and_prepare: what the path names
  loaded,        \* load_and_prepare: its result
  pixels,        \* extract_colors: argument
  k,             \* extract_colors: argument
  extracted,     \* extract_colors: its outcome
  colors,        \* assign_slots: argument
  mode,          \* assign_slots: argument
  oklch_colors,  \* assign_slots: local
  slots,         \* assign_slots: local
  assigned,      \* the slots written since assign_slots created the array
  palette,       \* assign_slots: the AnsiPalette returned
  call,          \* backend call: its arguments and the file system before it
  fs,            \* the file system
  result,        \* backend call: what it returned
  app,           \* tui: the TuiApp
  tui_args,      \* tui: the TuiApp as TuiApp::new made it
  prev,          \* tui: selected_slot and show_help before the last event
  last_key,      \* tui: the key code of the last event handled
  terminal,      \* tui: raw mode and alternate screen of the terminal
  loop_result,   \* tui: what run_event_loop returned
  run_result     \* tui: what run returned

vars == <<pc, file, loaded, pixels, k, extracted, colors, mode, oklch_colors,
          slots, assigned, palette, call, fs, result, app, tui_args, prev,
          last_key, terminal, loop_result, run_result>>

backendVars == <<call, fs, result>>

tuiVars == <<app, tui_args, prev, last_key, terminal, loop_result, run_result>>

loadVars == <<file, loaded>>

extractVars == <<pixels, k, extracted>>

assignVars == <<colors, mode, oklch_colors, slots, assigned, palette>>

Black == Color_new(0, 0, 0)

NoFile == [exists |-> FALSE, decodable |-> FALSE, width |-> 0, height |-> 0]

NotLoaded ==
  [ok |-> FALSE, error |-> [kind |-> "none", context |-> ""],
   width |-> 0, height |-> 0, len |-> 0]

NotExtracted == [panicked |-> FALSE, value |-> <<>>]

NoPalette ==
  [slots |-> [i \in SlotIndex |-> Black], background |-> Black,
   foreground |-> Black, cursor_color |-> Black, cursor_text |-> Black,
   selection_bg |-> Black, selection_fg |-> Black]

NoCall ==
  [op |-> "none", palette |-> NoPalette, theme_name |-> <<>>, path |-> <<>>,
   env |-> [XDG_CONFIG_HOME |-> <<>>, HOME |-> <<>>],
   fs |-> [dirs |-> {}, files |-> <<>>]]

NoResult == [ok |-> FALSE, path |-> <<>>, context |-> "", out |-> <<>>]

NoApp == TuiApp_new(NoPalette, <<>>, <<>>, "Dark", <<>>)

Init ==
  /\ pc = "idle"
  /\ call = NoCall
  /\ fs = [dirs |-> {}, files |-> <<>>]
  /\ result = NoResult
  /\ app = NoApp
  /\ tui_args = NoApp
  /\ prev = [selected_slot |-> None, show_help |-> FALSE]
  /\ last_key = "none"
  /\ terminal = [raw_mode |-> FALSE, alt_screen |-> FALSE]
  /\ loop_result = "none"
  /\ run_result = "none"
  /\ file = NoFile
  /\ loaded = NotLoaded
  /\ pixels = <<>>
  /\ k = 0
  /\ extracted = NotExtracted
  /\ colors = <<>>
  /\ mode = "Dark"
  /\ oklch_colors = <<>>
  /\ slots = [i \in SlotIndex |-> Black]
  /\ assigned = {}
  /\ palette = NoPalette

\* ------------------------------------------------------------------------
\* Operations
\* ------------------------------------------------------------------------

\* load_and_prepare(path)
LoadAndPrepare(f) ==
  /\ pc = "idle"
  /\ file' = f
  /\ loaded' = load_and_prepare(f)
  /\ pc' = "loaded"
  /\ UNCHANGED <<backendVars, tuiVars, extractVars, assignVars>>

\* extract_colors(pixels, k)
ExtractColors(px, kk) ==
  /\ pc = "idle"
  /\ pixels' = px
  /\ k' = kk
  /\ extracted' = extract_colors(px, kk)
  /\ pc' = IF extracted'.panicked THEN "extract_panicked" ELSE "extracted"
  /\ UNCHANGED <<backendVars, tuiVars, loadVars, assignVars>>

\* assign_slots(colors, mode): entry, up to the call of assign_accents.
CallAssignSlots(cs, m) ==
  /\ pc = "idle"
  /\ colors' = cs
  /\ mode' = m
  /\ slots' = [i \in SlotIndex |-> Color_new(0, 0, 0)]
  /\ assigned' = {}
  /\ oklch_colors' = to_oklch_colors(cs)
  /\ pc' = "assign_accents"
  /\ UNCHANGED <<backendVars, tuiVars, loadVars, extractVars, palette>>

\* assign_accents(&oklch_colors, &mut slots)
AssignAccents ==
  /\ pc = "assign_accents"
  /\ LET upd == assign_accents(oklch_colors)
     IN  /\ slots' = WriteSlots(slots, upd)
         /\ assigned' = assigned \cup DOMAIN upd
  /\ pc' = "assign_base_colors"
  /\ UNCHANGED <<backendVars, tuiVars, loadVars, extractVars, colors, mode, oklch_colors, palette>>

\* assign_base_colors(&oklch_colors, mode, &mut slots)
AssignBaseColors ==
  /\ pc = "assign_base_colors"
  /\ LET upd == assign_base_colors(oklch_colors, mode)
     IN  /\ slots' = WriteSlots(slots, upd)
         /\ assigned' = assigned \cup DOMAIN upd
  /\ pc' = "assign_bright_variants"
  /\ UNCHANGED <<backendVars, tuiVars, loadVars, extractVars, colors, mode, oklch_colors, palette>>

\* assign_bright_variants(&mut slots)
AssignBrightVariants ==
  /\ pc = "assign_bright_variants"
  /\ LET upd == assign_bright_variants(slots)
     IN  /\ slots' = WriteSlots(slots, upd)
         /\ assigned' = assigned \cup DOMAIN upd
  /\ pc' = "derive_special_colors"
  /\ UNCHANGED <<backendVars, tuiVars, loadVars, extractVars, colors, mode, oklch_colors, palette>>

\* derive_special_colors(slots, mode), whose value assign_slots returns
DeriveSpecialColors ==
  /\ pc = "derive_special_colors"
  /\ palette' = derive_special_colors(slots, mode)
  /\ pc' = "done"
  /\ UNCHANGED <<backendVars, tuiVars, loadVars, extractVars, colors, mode, oklch_colors, slots, assigned>>

\* GhosttyBackend::serialize(&palette, theme_name) on the palette that
\* assign_slots returned
Serialize(name) ==
  /\ pc = "done"
  /\ call' = [NoCall EXCEPT !.op = "serialize", !.palette = palette,
                            !.theme_name = name]
  /\ result' = [ok |-> TRUE, path |-> <<>>, context |-> "",
                out |-> serialize(palette, name)]
  /\ pc' = "serialized"
  /\ UNCHANGED <<loadVars, extractVars, assignVars, fs, tuiVars>>

\* What a backend call leaves behind: the outcome without the file system,
\* which becomes the state of the disk.
Returned(r) == [ok |-> r.ok, path |-> r.path, context |-> r.context, out |-> <<>>]

\* GhosttyBackend::write_to(&palette, theme_name, path)
WriteTo(f0, p, name, path, permitted) ==
  /\ pc = "idle"
  /\ call' = [NoCall EXCEPT !.op = "write_to", !.palette = p,
                            !.theme_name = name, !.path = path, !.fs = f0]
  /\ result' = Returned(write_to(f0, p, name, path, permitted))
  /\ fs' = write_to(f0, p, name, path, permitted).fs
  /\ pc' = "written"
  /\ UNCHANGED <<loadVars, extractVars, assignVars, tuiVars>>

\* GhosttyBackend::install(&palette, theme_name)
Install(f0, e, p, name, mkdir_permitted, write_permitted) ==
  /\ pc = "idle"
  /\ call' = [NoCall EXCEPT !.op = "install", !.palette = p,
                            !.theme_name = name, !.env = e, !.fs = f0]
  /\ result' = Returned(install(f0, e, p, name, mkdir_permitted, write_permitted))
  /\ fs' = install(f0, e, p, name, mkdir_permitted, write_permitted).fs
  /\ pc' = "installed"
  /\ UNCHANGED <<loadVars, extractVars, assignVars, tuiVars>>

\* TuiApp::new(..) and the entry of run(app)
TuiRun(p, ec, m) ==
  /\ pc = "idle"
  /\ app' = TuiApp_new(p, ec, <<"wallpaper.png">>, m, <<"my-theme">>)
  /\ tui_args' = TuiApp_new(p, ec, <<"wallpaper.png">>, m, <<"my-theme">>)
  /\ pc' = "enable_raw_mode"
  /\ UNCHANGED <<loadVars, extractVars, assignVars, backendVars, prev, last_key,
                 terminal, loop_result, run_result>>

\* run returns early with the error of a ? operator.
ReturnErr ==
  /\ run_result' = "Err"
  /\ pc' = "run_returned"

\* enable_raw_mode()?
EnableRawMode(ok) ==
  /\ pc = "enable_raw_mode"
  /\ IF ok
     THEN /\ terminal' = [terminal EXCEPT !.raw_mode = TRUE]
          /\ pc' = "enter_alternate_screen"
          /\ UNCHANGED run_result
     ELSE ReturnErr /\ UNCHANGED terminal
  /\ UNCHANGED <<loadVars, extractVars, assignVars, backendVars, app, tui_args,
                 prev, last_key, loop_result>>

\* stdout().execute(EnterAlternateScreen)?
EnterAlternateScreen(ok) ==
  /\ pc = "enter_alternate_screen"
  /\ IF ok
     THEN /\ terminal' = [terminal EXCEPT !.alt_screen = TRUE]
          /\ pc' = "terminal_new"
          /\ UNCHANGED run_result
     ELSE ReturnErr /\ UNCHANGED terminal
  /\ UNCHANGED <<loadVars, extractVars, assignVars, backendVars, app, tui_args,
                 prev, last_key, loop_result>>

\* Terminal::new(backend)?
TerminalNew(ok) ==
  /\ pc = "terminal_new"
  /\ IF ok THEN pc' = "event_loop" /\ UNCHANGED run_result ELSE ReturnErr
  /\ UNCHANGED <<loadVars, extractVars, assignVars, backendVars, app, tui_args,
                 prev, last_key, terminal, loop_result>>

\* One turn of the loop in which terminal.draw, event::poll or event::read
\* fails: run_event_loop returns the error.
LoopError(op) ==
  /\ pc = "event_loop"
  /\ loop_result' = "Err"
  /\ pc' = "disable_raw_mode"
  /\ UNCHANGED <<loadVars, extractVars, assignVars, backendVars, app, tui_args,
                 prev, last_key, terminal, run_result>>

\* One turn of the loop without a key press: poll timed out, the event was
\* no key event, or the key event was no press.
NoKeyPress(what) ==
  /\ pc = "event_loop"
  /\ prev' = [selected_slot |-> app.selected_slot, show_help |-> app.show_help]
  /\ last_key' = "none"
  /\ UNCHANGED <<pc, loadVars, extractVars, assignVars, backendVars, app, tui_args,
                 terminal, loop_result, run_result>>

\* One turn of the loop that reads the press of a key which stays in the
\* loop and leaves the TuiApp as next.
Handled(code, next) ==
  /\ pc = "event_loop"
  /\ prev' = [selected_slot |-> app.selected_slot, show_help |-> app.show_help]
  /\ last_key' = code
  /\ app' = next
  /\ UNCHANGED <<pc, loadVars, extractVars, assignVars, backendVars, tui_args,
                 terminal, loop_result, run_result>>

\* KeyCode::Char('q') => break
KeyQuit ==
  /\ pc = "event_loop"
  /\ prev' = [selected_slot |-> app.selected_slot, show_help |-> app.show_help]
  /\ last_key' = "q"
  /\ loop_result' = "Ok"
  /\ pc' = "disable_raw_mode"
  /\ UNCHANGED <<loadVars, extractVars, assignVars, backendVars, app, tui_args,
                 terminal, run_result>>

\* KeyCode::Char('?') => app.show_help = !app.show_help
KeyHelp == Handled("?", toggle_help(app))

\* KeyCode::Tab => cycle_slot(app)
KeyTab == Handled("Tab", cycle_slot(app))

\* KeyCode::BackTab => cycle_slot_reverse(app)
KeyBackTab == Handled("BackTab", cycle_slot_reverse(app))

\* KeyCode::Char(c @ '1'..='6')
KeyDigit(c) == c \in SlotDigits /\ Handled(c, select_digit(app, c))

\* KeyCode::Esc
KeyEsc == Handled("Esc", handle_esc(app))

\* _ => {}
KeyOther(code) ==
  /\ code \notin {"q", "?", "Tab", "BackTab", "Esc"} \cup SlotDigits
  /\ Handled(code, app)

\* disable_raw_mode()?
DisableRawMode(ok) ==
  /\ pc = "disable_raw_mode"
  /\ IF ok
     THEN /\ terminal' = [terminal EXCEPT !.raw_mode = FALSE]
          /\ pc' = "leave_alternate_screen"
          /\ UNCHANGED run_result
     ELSE ReturnErr /\ UNCHANGED terminal
  /\ UNCHANGED <<loadVars, extractVars, assignVars, backendVars, app, tui_args,
                 prev, last_key, loop_result>>

\* stdout().execute(LeaveAlternateScreen)? and the return of result
LeaveAlternateScreen(ok) ==
  /\ pc = "leave_alternate_screen"
  /\ IF ok
     THEN /\ terminal' = [terminal EXCEPT !.alt_screen = FALSE]
          /\ run_result' = loop_result
     ELSE run_result' = "Err" /\ UNCHANGED terminal
  /\ pc' = "run_returned"
  /\ UNCHANGED <<loadVars, extractVars, assignVars, backendVars, app, tui_args,
                 prev, last_key, loop_result>>

Next ==
  \/ \E f \in Files : LoadAndPrepare(f)
  \/ \E px \in SeqsUpTo(LabValues, MaxPixels), kk \in 0..MaxK : ExtractColors(px, kk)
  \/ \E cs \in SeqsUpTo(ExtractedColor, MaxColors), m \in ThemeMode : CallAssignSlots(cs, m)
  \/ AssignAccents
  \/ AssignBaseColors
  \/ AssignBrightVariants
  \/ DeriveSpecialColors
  \/ \E name \in ThemeNames : Serialize(name)
  \/ \E f0 \in FileSystems, p \in SamplePalettes, name \in ThemeNames,
        path \in OutputPaths, permitted \in BOOLEAN :
       WriteTo(f0, p, name, path, permitted)
  \/ \E f0 \in FileSystems, e \in Envs, p \in SamplePalettes, name \in ThemeNames,
        mkdir_permitted \in BOOLEAN, write_permitted \in BOOLEAN :
       Install(f0, e, p, name, mkdir_permitted, write_permitted)
  \/ \E p \in SamplePalettes, ec \in ViewerColors, m \in ThemeMode : TuiRun(p, ec, m)
  \/ \E ok \in BOOLEAN : EnableRawMode(ok)
  \/ \E ok \in BOOLEAN : EnterAlternateScreen(ok)
  \/ \E ok \in BOOLEAN : TerminalNew(ok)
  \/ \E op \in {"draw", "poll", "read"} : LoopError(op)
  \/ \E what \in {"timeout", "resize", "release"} : NoKeyPress(what)
  \/ KeyQuit
  \/ KeyHelp
  \/ KeyTab
  \/ KeyBackTab
  \/ \E c \in KeyCodes : KeyDigit(c)
  \/ KeyEsc
  \/ \E code \in KeyCodes : KeyOther(code)
  \/ \E ok \in BOOLEAN : DisableRawMode(ok)
  \/ \E ok \in BOOLEAN : LeaveAlternateScreen(ok)

Spec == Init /\ [][Next]_vars

\* ------------------------------------------------------------------------
\* Properties
\* ------------------------------------------------------------------------

IsColor(c) == c.r \in Channel /\ c.g \in Channel /\ c.b \in Channel

\* C1: for any list of extracted colours (the empty list included) and
\* either mode, when assign_slots returns, every one of the 16 slots has
\* been written, and the 16 slots and the 6 derived colours of the palette
\* are 8-bit RGB colours.
AssignSlotsTotal ==
  pc = "done" =>
    /\ assigned = SlotIndex
    /\ palette.slots = slots
    /\ \A i \in SlotIndex : IsColor(palette.slots[i])
    /\ IsColor(palette.background) /\ IsColor(palette.foreground)
    /\ IsColor(palette.cursor_color) /\ IsColor(palette.cursor_text)
    /\ IsColor(palette.selection_bg) /\ IsColor(palette.selection_fg)

\* assign_slots has returned a palette for the empty list.
AssignSlotsTotalWitness ==
  pc = "done" /\ colors = <<>> /\ assigned = SlotIndex

\* C4: the palette assign_slots returns has background = slot 0,
\* foreground = slot 15, cursor colour = foreground, cursor text =
\* background and selection foreground = foreground.
DerivedIdentities ==
  pc = "done" =>
    /\ palette.background = palette.slots[0]
    /\ palette.foreground = palette.slots[15]
    /\ palette.cursor_color = palette.foreground
    /\ palette.cursor_text = palette.background
    /\ palette.selection_fg = palette.foreground

\* A Light palette from a non-empty list whose slots 0, 7 and 15 differ.
DerivedIdentitiesWitness ==
  /\ pc = "done" /\ mode = "Light" /\ colors # <<>>
  /\ palette.slots[0] # palette.slots[15]
  /\ palette.slots[7] # palette.slots[15]
  /\ palette.foreground = palette.slots[15]

\* C5: in every palette returned, each bright accent i+8 (i in 1..6) is
\* accent i with its lightness raised by 0.12, clamped to [0, 1] and to
\* the gamut, and its Oklch lightness is strictly above that of accent i.
BrightMonotonic ==
  pc = "done" =>
    \A i \in 1..6 :
      LET normal == Color_to_oklch(palette.slots[i])
          bright == Color_to_oklch(palette.slots[i + 8])
      IN  /\ bright.l > normal.l
          /\ palette.slots[i + 8] =
               Color_from_oklch([l |-> Max(0, Min(1000000, normal.l + 120000)),
                                 chroma |-> normal.chroma, hue |-> normal.hue])

\* A palette with an accent so light that the raised lightness is clamped
\* at 1.
BrightMonotonicWitness ==
  /\ pc = "done"
  /\ \E i \in 1..6 :
       /\ Color_to_oklch(palette.slots[i]).l + 120000 > 1000000
       /\ Color_to_oklch(palette.slots[i + 8]).l > Color_to_oklch(palette.slots[i]).l

\* C2: extract_colors returns normally for every Lab pixel vector and
\* every k, and returns the empty list for the empty pixel vector.
ExtractNeverPanics ==
  pc \in {"extracted", "extract_panicked"} =>
    /\ ~extracted.panicked
    /\ pixels = <<>> => extracted.value = <<>>

\* Sum of the weights of a list of extracted colours.
RECURSIVE WeightSum(_)
WeightSum(ecs) == IF ecs = <<>> THEN 0 ELSE Head(ecs).weight + WeightSum(Tail(ecs))

\* C3: for every pixel vector and every k >= 1, extract_colors returns at
\* most k entries, none of weight zero, and for a non-empty pixel vector
\* their weights sum to 1.
ExtractAtMostK ==
  (pc \in {"extracted", "extract_panicked"} /\ k >= 1) =>
    /\ pc = "extracted"
    /\ Len(extracted.value) <= k
    /\ \A i \in 1..Len(extracted.value) : extracted.value[i].weight > 0
    /\ pixels # <<>> => WeightSum(extracted.value) = 1000000

\* The Oklch values of the colours handed to assign_slots.
InputOklch == {Color_to_oklch(colors[i].color) : i \in 1..Len(colors)}

\* The darkest inputs by Oklch lightness, or lightness 0.15 at zero chroma.
Darkest ==
  IF colors = <<>> THEN {[l |-> 150000, chroma |-> 0, hue |-> 0]}
  ELSE {o \in InputOklch : \A p \in InputOklch : o.l <= p.l}

\* The lightest inputs by Oklch lightness, or lightness 0.93 at zero chroma.
Lightest ==
  IF colors = <<>> THEN {[l |-> 930000, chroma |-> 0, hue |-> 0]}
  ELSE {o \in InputOklch : \A p \in InputOklch : o.l >= p.l}

\* The colour of lightness l with the chroma of o capped at cap, hue of o.
Capped(o, l, cap) ==
  Color_from_oklch([l |-> l, chroma |-> Min(o.chroma, cap), hue |-> o.hue])

\* C6: in Dark mode slot 0 is the darkest input (over all inputs) with
\* lightness min(L, 0.15) and chroma capped at 0.04, slot 7 the lightest
\* with lightness 0.85 and chroma capped at 0.02, slot 8 the darkest with
\* lightness 0.40 and chroma capped at 0.04, slot 15 the lightest with
\* lightness 0.93 and chroma capped at 0.02; slot 0 has lightness <= 0.16
\* and slot 15 lightness within 0.05 of 0.93.
DarkBaseColors ==
  (pc = "done" /\ mode = "Dark") =>
    /\ \E d \in Darkest, lt \in Lightest :
         /\ palette.slots[0] = Capped(d, Min(d.l, 150000), 40000)
         /\ palette.slots[7] = Capped(lt, 850000, 20000)
         /\ palette.slots[8] = Capped(d, 400000, 40000)
         /\ palette.slots[15] = Capped(lt, 930000, 20000)
    /\ Color_to_oklch(palette.slots[0]).l <= 160000
    /\ Abs(Color_to_oklch(palette.slots[15]).l - 930000) <= 50000

\* A Dark palette whose darkest input is chromatic, lighter than 0.15 and
\* above the chroma cap, and whose slot 0 the gamut clamp leaves above 0.15.
DarkBaseColorsWitness ==
  /\ pc = "done" /\ mode = "Dark" /\ Len(colors) = 2
  /\ \E d \in Darkest : d.l > 150000 /\ d.chroma > 40000
  /\ Color_to_oklch(palette.slots[0]).l > 150000

\* C7: in Light mode slot 0 is the lightest input with lightness
\* max(L, 0.93) and chroma capped at 0.02, slot 7 the darkest with
\* lightness 0.20 and chroma capped at 0.02, slot 8 the lightest with
\* lightness 0.60 and chroma capped at 0.04, slot 15 the darkest with
\* lightness min(L, 0.15) and chroma capped at 0.02; slot 0 has lightness
\* > 0.90 and slot 15 lightness < 0.20.
LightBaseColors ==
  (pc = "done" /\ mode = "Light") =>
    /\ \E d \in Darkest, lt \in Lightest :
         /\ palette.slots[0] = Capped(lt, Max(lt.l, 930000), 20000)
         /\ palette.slots[7] = Capped(d, 200000, 20000)
         /\ palette.slots[8] = Capped(lt, 600000, 40000)
         /\ palette.slots[15] = Capped(d, Min(d.l, 150000), 20000)
    /\ Color_to_oklch(palette.slots[0]).l > 900000
    /\ Color_to_oklch(palette.slots[15]).l < 200000

\* A Light palette whose lightest input is lighter than 0.93 and above the
\* chroma cap, and whose darkest input is lighter than 0.15.
LightBaseColorsWitness ==
  /\ pc = "done" /\ mode = "Light" /\ Len(colors) = 2
  /\ \E lt \in Lightest : lt.l > 930000 /\ lt.chroma > 20000
  /\ \E d \in Darkest : d.l > 150000
  /\ palette.slots[0] # palette.slots[15]

\* C8: a failed load carries the error kind ImageNotFound when
\* the path does not exist and UnsupportedOrCorruptFormat otherwise.
LoadErrorKinds ==
  (pc = "loaded" /\ ~loaded.ok) =>
    loaded.error.kind =
      IF ~file.exists THEN "ImageNotFound" ELSE "UnsupportedOrCorruptFormat"

\* The nearest integer to n/d, at least 1.
RoundedRatio(n, d) == Max(1, (2 * n + d) \div (2 * d))

\* C9: a successful load returns one Lab value per pixel of the prepared
\* image: width * height values when neither dimension exceeds 256, else
\* the pixels of the image scaled so that its larger dimension is 256 and
\* the other keeps the aspect ratio (to the nearest pixel, at least 1);
\* 512x512 gives 256*256 values and 512x256 gives 256*128.
LoadPixelCount ==
  (pc = "loaded" /\ loaded.ok) =>
    /\ loaded.len = loaded.width * loaded.height
    /\ (file.width <= 256 /\ file.height <= 256) =>
         loaded.width = file.width /\ loaded.height = file.height
    /\ (file.width > 256 \/ file.height > 256) =>
         /\ loaded.width <= 256 /\ loaded.height <= 256
         /\ file.width >= file.height =>
              /\ loaded.width = 256
              /\ loaded.height = RoundedRatio(256 * file.height, file.width)
         /\ file.height >= file.width =>
              /\ loaded.height = 256
              /\ loaded.width = RoundedRatio(256 * file.width, file.height)
    /\ (file.width = 512 /\ file.height = 512) => loaded.len = 256 * 256
    /\ (file.width = 512 /\ file.height = 256) => loaded.len = 256 * 128

\* A load that downsampled an image with only one dimension above 256.
LoadPixelCountWitness ==
  /\ pc = "loaded" /\ loaded.ok
  /\ file.width > 256 /\ file.height <= 256 /\ file.height > 1
  /\ loaded.width = 256 /\ loaded.height < file.height
  /\ loaded.len = loaded.width * loaded.height

\* Circular distance between two hues in [0, 360).
CircularDistance(a, b) == Min(Abs(a - b), 360000 - Abs(a - b))

\* The inputs with Oklch chroma above 0.02.
ChromaticInputs == {i \in 1..Len(colors) : Color_to_oklch(colors[i].color).chroma > 20000}

\* Input i is a chromatic input at least as close in hue to the target as
\* every other chromatic input.
ClosestChromatic(i, target) ==
  /\ i \in ChromaticInputs
  /\ \A j \in ChromaticInputs :
       CircularDistance(Color_to_oklch(colors[i].color).hue, target)
         <= CircularDistance(Color_to_oklch(colors[j].color).hue, target)

\* Slot holds what the accent policy makes of input i for the target: the
\* input colour itself within 60 degrees, else its lightness and chroma at
\* the target hue.
AccentOf(slot, i, target) ==
  IF CircularDistance(Color_to_oklch(colors[i].color).hue, target) <= 60000
  THEN palette.slots[slot] = colors[i].color
  ELSE palette.slots[slot] =
         Color_from_oklch([l |-> Color_to_oklch(colors[i].color).l,
                           chroma |-> Color_to_oklch(colors[i].color).chroma,
                           hue |-> target])

AccentTargets ==
  { <<1, 25000>>, <<2, 145000>>, <<3, 90000>>, <<4, 260000>>, <<5, 325000>>,
    <<6, 195000>> }

\* C10: when some input has chroma > 0.02, each accent slot (1 = 25, 2 =
\* 145, 3 = 90, 4 = 260, 5 = 325, 6 = 195 degrees) comes from a chromatic
\* input of least circular hue distance to the slot's target: that input's
\* colour unmodified if the distance is <= 60 degrees, otherwise its
\* lightness and chroma with the hue forced to the target.
AccentSelection ==
  (pc = "done" /\ ChromaticInputs # {}) =>
    \A st \in AccentTargets :
      \E i \in 1..Len(colors) :
        ClosestChromatic(i, st[2]) /\ AccentOf(st[1], i, st[2])

\* A palette with one accent taken unmodified and one synthesised, from an
\* input where a colour below the chroma threshold is closer to some target
\* than every chromatic colour.
AccentSelectionWitness ==
  /\ pc = "done" /\ ChromaticInputs # {}
  /\ \E st \in AccentTargets : \E i \in ChromaticInputs :
       palette.slots[st[1]] = colors[i].color
  /\ \E st \in AccentTargets : \A i \in 1..Len(colors) :
       palette.slots[st[1]] # colors[i].color
  /\ \E st \in AccentTargets : \E g \in (1..Len(colors)) \ ChromaticInputs :
       \A i \in ChromaticInputs :
         CircularDistance(Color_to_oklch(colors[g].color).hue, st[2])
           < CircularDistance(Color_to_oklch(colors[i].color).hue, st[2])

\* The accent synthesised for a target hue when no candidate is chromatic.
DefaultAccent(target) ==
  Color_from_oklch([l |-> 650000, chroma |-> 150000, hue |-> target])

\* C11: when no input has chroma > 0.02 (the empty input included), every
\* accent slot 1..6 is the fixed default (lightness 0.65, chroma 0.15) at
\* the slot's target hue and every bright slot 9..14 is that default
\* raised by 0.12; neither depends on the neutral colours of the input, so
\* any two such inputs give the same accent and bright slots.
MonochromeAccents ==
  (pc = "done" /\ ChromaticInputs = {}) =>
    \A st \in AccentTargets :
      /\ palette.slots[st[1]] = DefaultAccent(st[2])
      /\ palette.slots[st[1] + 8] = adjust_lightness(DefaultAccent(st[2]), 120000)

\* A palette made from two different colours, neither of them chromatic.
MonochromeAccentsWitness ==
  /\ pc = "done" /\ ChromaticInputs = {}
  /\ Len(colors) = 2 /\ colors[1].color # colors[2].color
  /\ palette.slots[1] = DefaultAccent(25000)
  /\ palette.slots[0] # palette.slots[15]

\* The selection background the policy derives from a slot-4 colour.
SelectionOf(blue, m) ==
  Color_from_oklch(
    [l      |-> IF m = "Dark" THEN Min(Color_to_oklch(blue).l + 100000, 1000000)
                ELSE Max(Color_to_oklch(blue).l - 100000, 0),
     chroma |-> Max((6 * Color_to_oklch(blue).chroma) \div 10, 10000),
     hue    |-> Color_to_oklch(blue).hue])

\* C12: selection_bg is derived from the final slot 4: same hue, chroma
\* max(0.6 * chroma, 0.01), lightness min(L + 0.1, 1) in Dark mode and
\* max(L - 0.1, 0) in Light mode, then clamped to the gamut.
SelectionBackground ==
  pc = "done" => palette.selection_bg = SelectionOf(palette.slots[4], mode)

\* A Dark palette whose slot 4 is so light that the raised lightness is
\* clamped at 1.
SelectionBackgroundWitness ==
  /\ pc = "done" /\ mode = "Dark"
  /\ Color_to_oklch(palette.slots[4]).l > 900000
  /\ palette.selection_bg # palette.slots[4]

\* The position of the first line feed of a text, or one past its end.
FirstLineFeed(text) ==
  CHOOSE i \in 1..(Len(text) + 1) :
    /\ i = Len(text) + 1 \/ text[i] = "\n"
    /\ \A j \in 1..(i - 1) : text[j] # "\n"

\* str::lines: the text between line feeds, without a final empty line.
RECURSIVE Lines(_)
LinesSplit(text, n) ==
  <<SubSeq(text, 1, n - 1)>> \o Lines(SubSeq(text, n + 1, Len(text)))

Lines(text) == IF text = <<>> THEN <<>> ELSE LinesSplit(text, FirstLineFeed(text))

LowerHexDigits ==
  {"0", "1", "2", "3", "4", "5", "6", "7", "8", "9", "a", "b", "c", "d", "e", "f"}

\* The number a pair of lowercase hex digits stands for.
HexPairValue(hi, lo) ==
  16 * (CHOOSE n \in 0..15 : HexDigit[n + 1] = hi)
    + (CHOOSE n \in 0..15 : HexDigit[n + 1] = lo)

\* text is '#' and six lowercase hex digits that spell the colour c.
IsHexOf(text, c) ==
  /\ Len(text) = 7
  /\ text[1] = "#"
  /\ \A i \in 2..7 : text[i] \in LowerHexDigits
  /\ HexPairValue(text[2], text[3]) = c.r
  /\ HexPairValue(text[4], text[5]) = c.g
  /\ HexPairValue(text[6], text[7]) = c.b

\* line is 'key = #rrggbb' for the colour c.
IsSpecialLine(line, key, c) ==
  /\ Len(line) = Len(key) + 10
  /\ SubSeq(line, 1, Len(key) + 3) = key \o <<" ", "=", " ">>
  /\ IsHexOf(SubSeq(line, Len(key) + 4, Len(line)), c)

\* The decimal numeral of a slot index.
SlotNumeral(i) ==
  IF i < 10 THEN <<DecDigit[i + 1]>> ELSE <<"1", DecDigit[i - 9]>>

\* line is 'palette = i=#rrggbb' for the colour c.
IsPaletteLine(line, i, c) ==
  /\ Len(line) = 10 + Len(SlotNumeral(i)) + 8
  /\ SubSeq(line, 1, 10 + Len(SlotNumeral(i)) + 1)
       = <<"p", "a", "l", "e", "t", "t", "e", " ", "=", " ">> \o SlotNumeral(i) \o <<"=">>
  /\ IsHexOf(SubSeq(line, 10 + Len(SlotNumeral(i)) + 2, Len(line)), c)

\* The 22 lines of a theme file for the palette p.
IsThemeText(ls, p) ==
  /\ Len(ls) = 22
  /\ IsSpecialLine(ls[1], <<"b","a","c","k","g","r","o","u","n","d">>, p.background)
  /\ IsSpecialLine(ls[2], <<"f","o","r","e","g","r","o","u","n","d">>, p.foreground)
  /\ IsSpecialLine(ls[3], <<"c","u","r","s","o","r","-","c","o","l","o","r">>,
                   p.cursor_color)
  /\ IsSpecialLine(ls[4], <<"c","u","r","s","o","r","-","t","e","x","t">>, p.cursor_text)
  /\ IsSpecialLine(ls[5],
       <<"s","e","l","e","c","t","i","o","n","-","b","a","c","k","g","r","o","u","n","d">>,
       p.selection_bg)
  /\ IsSpecialLine(ls[6],
       <<"s","e","l","e","c","t","i","o","n","-","f","o","r","e","g","r","o","u","n","d">>,
       p.selection_fg)
  /\ \A i \in 0..15 : IsPaletteLine(ls[7 + i], i, p.slots[i])

\* C13: for every palette, serialize emits exactly 22 lines in a fixed
\* order: background, foreground, cursor-color, cursor-text,
\* selection-background, selection-foreground, each as 'key = #rrggbb',
\* then 'palette = i=#rrggbb' for i = 0..15 in increasing order with no
\* spaces around the inner '='; every colour value is '#' and exactly six
\* lowercase hex digits.
SerializeFormat ==
  pc = "serialized" => IsThemeText(Lines(result.out), call.palette)

\* A serialized palette whose colours need the hex digits a..f.
SerializeFormatWitness ==
  /\ pc = "serialized"
  /\ call.palette.slots[15].r >= 160
  /\ call.palette.slots[0] # call.palette.slots[15]
  /\ Len(result.out) > 22 * 20

\* The directory <XDG_CONFIG_HOME or HOME/.config>/ghostty/themes.
StandardThemesDir(e) ==
  IF e.XDG_CONFIG_HOME # <<>> THEN e.XDG_CONFIG_HOME[1] \o <<"ghostty", "themes">>
  ELSE e.HOME[1] \o <<".config", "ghostty", "themes">>

\* The file at path holds the theme text of the call's palette.
HoldsTheme(path) ==
  /\ path \in DOMAIN fs.files
  /\ fs.files[path] = serialize(call.palette, call.theme_name)

\* C14: a successful write_to leaves at path a file whose content equals
\* serialize(palette, name); a successful install has created the themes
\* directory, has written that content to
\* <XDG_CONFIG_HOME or HOME/.config>/ghostty/themes/<name> and returns
\* exactly that path; when creating the directory or writing fails, an
\* error and no path is returned.
InstallWritesTheme ==
  /\ (pc = "written" /\ result.ok) => HoldsTheme(call.path)
  /\ (pc = "installed" /\ result.ok) =>
       /\ Len(result.path) = 1
       /\ HoldsTheme(result.path[1])
       /\ (call.env.XDG_CONFIG_HOME # <<>> \/ call.env.HOME # <<>>) =>
            /\ StandardThemesDir(call.env) \in fs.dirs
            /\ result.path[1] = StandardThemesDir(call.env) \o call.theme_name
  /\ (pc = "installed" /\ ~result.ok) =>
       /\ result.path = <<>>
       /\ result.context \in {"failed to create themes directory",
                              "failed to write theme to"}

\* C15: after any sequence of key events handled by the event loop, the
\* palette and the extracted colours of the TuiApp are what TuiApp::new
\* was given; only selected_slot and show_help ever change.
ViewerReadsOnly ==
  /\ app.palette = tui_args.palette
  /\ app.extracted_colors = tui_args.extracted_colors
  /\ [app EXCEPT !.selected_slot = None, !.show_help = FALSE] = tui_args

\* The viewer of a coloured palette after Tab and '?' have been handled.
ViewerReadsOnlyWitness ==
  /\ pc = "event_loop" /\ last_key = "?"
  /\ app.show_help /\ app.selected_slot = Some(3)
  /\ app.palette = SamplePalette /\ app.extracted_colors # <<>>

\* C16: extract_colors terminates for every input by returning a result
\* (its loop stops on convergence or after a bounded number of rounds), and
\* the result is determined by the pixels and k.
ExtractTerminates ==
  pc \in {"extracted", "extract_panicked"} =>
    /\ pc = "extracted"
    /\ extracted.value = extract_colors(pixels, k).value

\* C17: whenever run returns after raw mode was enabled, whichever way it
\* returns, raw mode is disabled and the alternate screen is left.
TerminalRestored ==
  pc = "run_returned" => ~terminal.raw_mode /\ ~terminal.alt_screen

\* C18: '?' toggles the help overlay; while the overlay is shown '?' or
\* Esc closes it, and that Esc leaves selected_slot unchanged; Esc sets
\* selected_slot to None only when the overlay is not shown.
HelpOverlayKeys ==
  /\ last_key = "?" =>
       app.show_help = ~prev.show_help /\ app.selected_slot = prev.selected_slot
  /\ (last_key \in {"?", "Esc"} /\ prev.show_help) => ~app.show_help
  /\ (last_key = "Esc" /\ prev.show_help) => app.selected_slot = prev.selected_slot
  /\ (last_key = "Esc" /\ ~prev.show_help) =>
       app.selected_slot = None /\ ~app.show_help

\* Esc has closed the overlay and left slot 3 selected.
HelpOverlayKeysWitness ==
  /\ last_key = "Esc" /\ prev.show_help /\ ~app.show_help
  /\ prev.selected_slot = Some(3) /\ app.selected_slot = Some(3)

\* The slot a digit key stands for.
DigitSlot ==
  [c \in {"1", "2", "3", "4", "5", "6"} |->
     CASE c = "1" -> 1 [] c = "2" -> 2 [] c = "3" -> 3
       [] c = "4" -> 4 [] c = "5" -> 5 [] c = "6" -> 6]

\* C19: selected_slot is always None or Some(n) with 0 <= n <= 15; Tab
\* advances by one, wrapping 15 to 0, and takes None to 0; BackTab goes
\* back by one, wrapping 0 to 15, and takes None to 15; the keys '1'..'6'
\* select exactly the slots 1..6; other characters select nothing.
SelectedSlotValid ==
  /\ app.selected_slot = None
       \/ (Len(app.selected_slot) = 1 /\ app.selected_slot[1] \in 0..15)
  /\ last_key = "Tab" =>
       app.selected_slot =
         IF prev.selected_slot = None THEN <<0>>
         ELSE <<(prev.selected_slot[1] + 1) % 16>>
  /\ last_key = "BackTab" =>
       app.selected_slot =
         IF prev.selected_slot = None THEN <<15>>
         ELSE <<(prev.selected_slot[1] + 15) % 16>>
  /\ last_key \in DOMAIN DigitSlot => app.selected_slot = <<DigitSlot[last_key]>>
  /\ last_key \in {"0", "7", "x", "Enter", "none", "q"} =>
       app.selected_slot = prev.selected_slot

\* Tab has wrapped from the last slot to the first.
SelectedSlotValidWitness ==
  /\ last_key = "Tab" /\ prev.selected_slot = Some(15)
  /\ app.selected_slot = Some(0)

\* n presses of Tab.
RECURSIVE Tabs(_, _)
Tabs(a, n) == IF n = 0 THEN a ELSE Tabs(cycle_slot(a), n - 1)

\* n presses of BackTab.
RECURSIVE BackTabs(_, _)
BackTabs(a, n) == IF n = 0 THEN a ELSE BackTabs(cycle_slot_reverse(a), n - 1)

\* C20: whenever a slot is selected, Tab followed by BackTab and BackTab
\* followed by Tab restore selected_slot, and so do 16 consecutive Tabs
\* and 16 consecutive BackTabs.
TabRoundTrip ==
  app.selected_slot # None =>
    /\ cycle_slot_reverse(cycle_slot(app)) = app
    /\ cycle_slot(cycle_slot_reverse(app)) = app
    /\ Tabs(app, 16) = app
    /\ BackTabs(app, 16) = app

\* BackTab has just undone a Tab that wrapped from slot 15 to slot 0.
TabRoundTripWitness ==
  /\ last_key = "BackTab" /\ prev.selected_slot = Some(0)
  /\ app.selected_slot = Some(15)
  /\ cycle_slot(app).selected_slot = Some(0)

\* The same colours in the same order, every weight replaced by w.
Reweighted(cs, w) == [i \in 1..Len(cs) |-> [color |-> cs[i].color, weight |-> w]]

\* C21: the palette assign_slots returns depends only on the sequence of
\* input colours and the mode: it equals the palette of the same colours
\* with every weight replaced by one fixed weight, so any two inputs with
\* the same colours in the same order, whatever their weights, give the
\* same slots and derived colours.
WeightsIgnored ==
  pc = "done" =>
    /\ palette = assign_slots(Reweighted(colors, 0), mode)
    /\ palette = assign_slots(Reweighted(colors, 1000000), mode)

\* A palette made from two different colours of different weight, one of
\* them chromatic.
WeightsIgnoredWitness ==
  /\ pc = "done" /\ Len(colors) = 2
  /\ colors[1].weight # colors[2].weight
  /\ colors[1].color # colors[2].color
  /\ ChromaticInputs # {}
  /\ palette.slots[1] # palette.slots[2]

====
